---- MODULE Spec2Model ----
(***************************************************************************)
(* Model of the retrieval subsystem of the PDF interaction backend:         *)
(*   backend/app/vector_store.py   persistence helpers and search_index     *)
(*   backend/app/rag_pipeline.py   RAGPipeline (load, reload, retrieve,     *)
(*                                 answer)                                  *)
(*   backend/app/main.py           the upload_pdf and query_pdf handlers    *)
(*                                                                          *)
(* Rows are numbered from 1 here (Python numbers them from 0); the "no      *)
(* result" label -1 of the index library is therefore 0 here.               *)
(***************************************************************************)
EXTENDS Integers, Sequences, FiniteSets, TLC

\* ------------------------------------------------------------------ bounds
\* Largest number of rows of a corpus handed to search_index directly.
MaxRows == 3
\* Largest top_k handed to search_index directly.
MaxK == 3
\* Number of uploads that reach the persistence step in one behaviour.
MaxUploads == 2

\* --------------------------------------------------------------- constants
\* retrieve_context's default top_k.
DefaultTopK == 3

\* ------------------------------------------------------- embedding provider
\* Chunk and query texts. The embedding model is an opaque deterministic
\* function text -> vector; here a table over four texts: A, B, C are the
\* vectors of the specification's scenario ([0.7,0.7] scaled to integers),
\* D has the direction of A and another length.
Texts == {"A", "B", "C", "D"}

Embed(t) ==
  CASE t = "A" -> <<1, 0>>
    [] t = "B" -> <<0, 1>>
    [] t = "C" -> <<7, 7>>
    [] t = "D" -> <<2, 0>>

\* A float vector: the integer direction v and whether it has been
\* L2-normalized (it then stands for v / |v|).
Raw(t) == [v |-> Embed(t), unit |-> FALSE]

NormalizeL2(x) == [v |-> x.v, unit |-> TRUE]

Dot(a, b) == a[1] * b[1] + a[2] * b[2]

\* Square of the length a vector was divided by.
Den(x) == IF x.unit THEN Dot(x.v, x.v) ELSE 1

\* The inner product of two vectors, kept exact: num / sqrt(den).
InnerProduct(q, r) == [num |-> Dot(q.v, r.v), den |-> Den(q) * Den(r)]

SignedSq(n) == IF n >= 0 THEN n * n ELSE -(n * n)

\* s1 < s2 and s1 = s2 on exact scores (den > 0).
ScoreLess(s1, s2) == SignedSq(s1.num) * s2.den < SignedSq(s2.num) * s1.den

ScoreEq(s1, s2) == SignedSq(s1.num) * s2.den = SignedSq(s2.num) * s1.den

\* ------------------------------------------------------------------ search
Min(a, b) == IF a <= b THEN a ELSE b

Perms(n) == {p \in [1..n -> 1..n] : \A i, j \in 1..n : p[i] = p[j] => i = j}

\* np.argsort(-sims) with the default (unstable) sort, and the order in which
\* the flat index reports its rows: every permutation that puts the scores in
\* descending order; the order among equal scores is whatever the build
\* produces.
ArgSortDesc(sims) ==
  {p \in Perms(Len(sims)) :
     \A i, j \in 1..Len(sims) : i < j => ~ScoreLess(sims[p[i]], sims[p[j]])}

\* index.search(query, top_k) of a flat inner-product index: top_k labels and
\* distances, padded with the label 0 (-1 in the library) when the index holds
\* fewer than top_k rows.
IndexSearch(rows, q, k) ==
  LET sims == [i \in 1..Len(rows) |-> InnerProduct(rows[i], q)]
  IN  {[i \in 1..k |->
          IF i <= Len(rows) THEN [idx |-> p[i], dist |-> sims[p[i]]]
                            ELSE [idx |-> 0, dist |-> [num |-> 0, den |-> 1]]]
         : p \in ArgSortDesc(sims)}

\* The loop of the FAISS branch: labels outside the metadata list are skipped.
RECURSIVE CollectResults(_, _)
CollectResults(hits, metadata_list) ==
  IF hits = <<>> THEN <<>>
  ELSE LET h == Head(hits)
           rest == CollectResults(Tail(hits), metadata_list)
       IN  IF h.idx < 1 \/ h.idx > Len(metadata_list)
           THEN rest
           ELSE <<[row |-> h.idx, meta |-> metadata_list[h.idx], score |-> h.dist]>>
                \o rest

HasEmbedding(rec) == "embedding" \in DOMAIN rec

NoIndex == [kind |-> "none", gen |-> 0, rows |-> <<>>]

\* search_index: the set of outcomes the call can have. An outcome either
\* raised or carries the result list of (metadata, score), each with the row
\* it came from.
search_index(query_vec, index, metadata_list, top_k, faissAvailable) ==
  LET q0 == IF faissAvailable THEN NormalizeL2(query_vec) ELSE query_vec
  IN  IF faissAvailable /\ index.kind # "none"
      THEN {[raised |-> FALSE, res |-> CollectResults(hits, metadata_list)]
              : hits \in IndexSearch(index.rows, q0, top_k)}
      ELSE IF metadata_list = <<>>
                \/ \E i \in 1..Len(metadata_list) : ~HasEmbedding(metadata_list[i])
           THEN {[raised |-> TRUE, res |-> <<>>]}
           ELSE LET matrix == [i \in 1..Len(metadata_list) |->
                                 NormalizeL2(metadata_list[i].embedding)]
                    q == NormalizeL2(q0)
                    sims == [i \in 1..Len(matrix) |-> InnerProduct(matrix[i], q)]
                    n == Min(top_k, Len(matrix))
                IN  {[raised |-> FALSE,
                      res |-> [i \in 1..n |->
                                 [row |-> p[i], meta |-> metadata_list[p[i]],
                                  score |-> sims[p[i]]]]]
                       : p \in ArgSortDesc(sims)}


\* ------------------------------------------------------------------- state
VARIABLES
  faiss,      \* _FAISS_AVAILABLE of the process (fixed by the environment)
  alive,      \* the module-level RAGPipeline() was constructed
  client,     \* self.client: "ok" or "none" (InferenceClient failed to build)
  index,      \* self.index
  metadata,   \* self.metadata
  idxFile,    \* faiss_index.idx on disk
  metaFile,   \* meta_store.pkl on disk
  uploads,    \* number of uploads that reached the persistence step
  resp,       \* what the last call returned to its caller
  upc,        \* position of an upload running in its own thread
  uDoc,       \* the chunks of that upload
  qpc,        \* position of a retrieve_context running in its own thread
  qQuery,     \* its query
  qIndex,     \* the self.index it evaluated for the search_index call
  qMeta,      \* the self.metadata it evaluated for the search_index call
  sIn,        \* arguments of a direct search_index call
  sOut,       \* its outcome
  aIndex,     \* the index the last add_embeddings_to_index call returned
  aMeta,      \* the metadata list it returned
  aCalls,     \* number of add_embeddings_to_index calls made
  cIn,        \* arguments of a chunk_text call
  cStart,     \* its local start
  cChunks     \* its local chunks

pipeVars == <<alive, client, index, metadata>>
diskVars == <<idxFile, metaFile, uploads>>
threadVars == <<upc, uDoc, qpc, qQuery, qIndex, qMeta>>
searchVars == <<sIn, sOut>>
addVars == <<aIndex, aMeta, aCalls>>
chunkVars == <<cIn, cStart, cChunks>>
funcVars == <<addVars, chunkVars>>
vars == <<faiss, pipeVars, diskVars, resp, threadVars, searchVars, funcVars>>

\* ---------------------------------------------------------------- documents
\* What prepare_chunks_from_pdf yields for the uploaded file: the chunk texts
\* in order (a document without text yields none).
Docs == {<<>>, <<"A", "B", "C">>, <<"B", "A">>}

\* upload_pdf's metadata list: text, page, chunk_id, source of every chunk.
\* The embedding is not part of the record.
UploadMetadata(doc) ==
  [i \in 1..Len(doc) |->
     [text |-> doc[i], page |-> 1, chunk_id |-> i, source |-> "upload.pdf"]]

\* build_faiss_index(np.stack(embeddings)): the rows, normalized, in input order.
build_faiss_index(doc) == [i \in 1..Len(doc) |-> NormalizeL2(Raw(doc[i]))]

\* -------------------------------------------------------------- persistence
\* A file is absent, unreadable (a write that stopped half way) or holds what
\* was written; gen records the upload that wrote it.
AbsentIdx == [st |-> "absent", gen |-> 0, rows |-> <<>>]
AbsentMeta == [st |-> "absent", gen |-> 0, recs |-> <<>>]
CorruptIdx == [st |-> "corrupt", gen |-> 0, rows |-> <<>>]
CorruptMeta == [st |-> "corrupt", gen |-> 0, recs |-> <<>>]

EmptyMetadata == [gen |-> 0, recs |-> <<>>]

\* save_index / save_metadata: the file after a write that completed.
save_index(rows, gen) == [st |-> "ok", gen |-> gen, rows |-> rows]

save_metadata(recs, gen) == [st |-> "ok", gen |-> gen, recs |-> recs]

\* load_metadata: FileNotFoundError when the file is absent, the unpickling
\* error when it cannot be read, else the list.
load_metadata(f) ==
  IF f.st = "absent" THEN [exc |-> "FileNotFoundError", val |-> EmptyMetadata]
  ELSE IF f.st = "corrupt" THEN [exc |-> "Exception", val |-> EmptyMetadata]
  ELSE [exc |-> "none", val |-> [gen |-> f.gen, recs |-> f.recs]]

\* load_index (called only when FAISS is available).
load_index(f) ==
  IF f.st = "absent" THEN [exc |-> "FileNotFoundError", val |-> NoIndex]
  ELSE IF f.st = "corrupt" THEN [exc |-> "Exception", val |-> NoIndex]
  ELSE [exc |-> "none", val |-> [kind |-> "faiss", gen |-> f.gen, rows |-> f.rows]]

\* ---------------------------------------------------------------- pipeline
\* RAGPipeline.__init__, the vector store part: FileNotFoundError from either
\* load gives the empty corpus; any other exception leaves the constructor.
InitLoad(iF, mF, fa) ==
  LET m == load_metadata(mF)
      i == load_index(iF)
  IN  IF m.exc = "FileNotFoundError"
      THEN [index |-> NoIndex, metadata |-> EmptyMetadata, raised |-> FALSE]
      ELSE IF m.exc # "none"
      THEN [index |-> NoIndex, metadata |-> EmptyMetadata, raised |-> TRUE]
      ELSE IF ~fa
      THEN [index |-> NoIndex, metadata |-> m.val, raised |-> FALSE]
      ELSE IF i.exc = "FileNotFoundError"
      THEN [index |-> NoIndex, metadata |-> EmptyMetadata, raised |-> FALSE]
      ELSE IF i.exc # "none"
      THEN [index |-> NoIndex, metadata |-> EmptyMetadata, raised |-> TRUE]
      ELSE [index |-> i.val, metadata |-> m.val, raised |-> FALSE]

\* RAGPipeline.reload_index: self.metadata is assigned as soon as it is loaded,
\* self.index after it; every exception is caught and printed.
reload_index(idx, meta, iF, mF, fa) ==
  LET m == load_metadata(mF)
      i == load_index(iF)
  IN  IF m.exc # "none"
      THEN [index |-> idx, metadata |-> meta, raised |-> FALSE]
      ELSE IF ~fa
      THEN [index |-> NoIndex, metadata |-> m.val, raised |-> FALSE]
      ELSE IF i.exc # "none"
      THEN [index |-> idx, metadata |-> m.val, raised |-> FALSE]
      ELSE [index |-> i.val, metadata |-> m.val, raised |-> FALSE]

\* The texts of a result list.
ContextTexts(res) == [i \in 1..Len(res) |-> res[i].meta.text]

\* retrieve_context without its "if not self.metadata: return []".
retrieve_context_NoEmptyCheck(query, idx, meta, fa) ==
  {[raised |-> o.raised, ctx |-> ContextTexts(o.res)]
     : o \in search_index(Raw(query), idx, meta.recs, DefaultTopK, fa)}

\* RAGPipeline.retrieve_context: the outcomes of one call.
retrieve_context(query, idx, meta, fa) ==
  IF meta.recs = <<>>
  THEN {[raised |-> FALSE, ctx |-> <<>>]}
  ELSE {[raised |-> o.raised, ctx |-> ContextTexts(o.res)]
          : o \in search_index(Raw(query), idx, meta.recs, DefaultTopK, fa)}

\* answer_query with the chat_completion call outside a try block: a gateway
\* failure leaves the function as an exception.
answer_query_Propagates(query, cl, idx, meta, fa, gwOk) ==
  IF cl = "none"
  THEN {[raised |-> FALSE, out |-> "client_error", ctx |-> <<>>, gw |-> "not_called"]}
  ELSE {IF c.raised
        THEN [raised |-> TRUE, out |-> "raised", ctx |-> <<>>, gw |-> "not_called"]
        ELSE IF c.ctx = <<>>
        THEN [raised |-> FALSE, out |-> "no_info", ctx |-> <<>>, gw |-> "not_called"]
        ELSE IF gwOk
        THEN [raised |-> FALSE, out |-> "generated", ctx |-> c.ctx, gw |-> "answered"]
        ELSE [raised |-> TRUE, out |-> "raised", ctx |-> <<>>, gw |-> "failed"]
          : c \in retrieve_context(query, idx, meta, fa)}

\* RAGPipeline.answer_query: the outcomes of one call; gwOk tells whether
\* client.chat_completion answers or fails. gw records whether the gateway was
\* called and how the call ended.
answer_query(query, cl, idx, meta, fa, gwOk) ==
  IF cl = "none"
  THEN {[raised |-> FALSE, out |-> "client_error", ctx |-> <<>>, gw |-> "not_called"]}
  ELSE {IF c.raised
        THEN [raised |-> TRUE, out |-> "raised", ctx |-> <<>>, gw |-> "not_called"]
        ELSE IF c.ctx = <<>>
        THEN [raised |-> FALSE, out |-> "no_info", ctx |-> <<>>, gw |-> "not_called"]
        ELSE IF gwOk
        THEN [raised |-> FALSE, out |-> "generated", ctx |-> c.ctx, gw |-> "answered"]
        ELSE [raised |-> FALSE, out |-> "gen_error", ctx |-> c.ctx, gw |-> "failed"]
          : c \in retrieve_context(query, idx, meta, fa)}

\* query_pdf without its guard.
NothingIndexed_NoGuard(idx, meta) == FALSE

\* query_pdf's guard: not rag_pipeline.index and not rag_pipeline.metadata.
NothingIndexed(idx, meta) == idx.kind = "none" /\ meta.recs = <<>>


\* ----------------------------------------------------------------- upload
\* How the persistence step of an upload ends: both writes complete, or
\* save_index / save_metadata raises before it wrote (the file is as it was)
\* or while it wrote (the file is left unreadable).
SaveOutcomes ==
  {"none", "index_raise", "index_torn", "metadata_raise", "metadata_torn"}

IndexWriteFails(io) == io \in {"index_raise", "index_torn"}

MetadataWriteFails(io) == io \in {"metadata_raise", "metadata_torn"}

\* upload_pdf: the response status and the files and pipeline it leaves.
\* gen is the number of this upload.
upload_pdf(doc, pdfName, io, fa, idx, meta, iF, mF, gen) ==
  IF ~pdfName
  THEN [status |-> 400, idxFile |-> iF, metaFile |-> mF, index |-> idx, metadata |-> meta]
  ELSE IF doc = <<>>
  THEN [status |-> 500, idxFile |-> iF, metaFile |-> mF, index |-> idx, metadata |-> meta]
  ELSE
    LET idxFailed == fa /\ IndexWriteFails(io)
        iF1 == IF ~fa \/ io = "index_raise" THEN iF
               ELSE IF io = "index_torn" THEN CorruptIdx
               ELSE save_index(build_faiss_index(doc), gen)
        mF1 == IF idxFailed \/ io = "metadata_raise" THEN mF
               ELSE IF io = "metadata_torn" THEN CorruptMeta
               ELSE save_metadata(UploadMetadata(doc), gen)
        r == reload_index(idx, meta, iF1, mF1, fa)
    IN  IF idxFailed \/ MetadataWriteFails(io)
        THEN [status |-> 500, idxFile |-> iF1, metaFile |-> mF1,
              index |-> idx, metadata |-> meta]
        ELSE [status |-> 200, idxFile |-> iF1, metaFile |-> mF1,
              index |-> r.index, metadata |-> r.metadata]

\* --------------------------------------------------------------- responses
Resp(op, status, out, ctx, gw) ==
  [op |-> op, status |-> status, out |-> out, ctx |-> ctx, gw |-> gw]

NoSearch == [called |-> FALSE]

\* No add_embeddings_to_index call made yet, no chunk_text call in progress.
NoChunking == [called |-> FALSE]

FuncsAtRest ==
  /\ aIndex = NoIndex
  /\ aMeta = <<>>
  /\ aCalls = 0
  /\ cIn = NoChunking
  /\ cStart = 0
  /\ cChunks = <<>>

Idle == upc = "idle" /\ qpc = "idle"

Init ==
  /\ faiss \in BOOLEAN
  /\ alive = TRUE
  /\ client \in {"ok", "none"}
  /\ index = NoIndex
  /\ metadata = EmptyMetadata
  /\ idxFile = AbsentIdx
  /\ metaFile = AbsentMeta
  /\ uploads = 0
  /\ resp = Resp("start", 0, "none", <<>>, "not_called")
  /\ upc = "idle"
  /\ uDoc = <<>>
  /\ qpc = "idle"
  /\ qQuery = "A"
  /\ qIndex = NoIndex
  /\ qMeta = EmptyMetadata
  /\ sIn = NoSearch
  /\ sOut = NoSearch
  /\ FuncsAtRest

\* ------------------------------------------------- operations, one per call
\* POST /upload_pdf, run to completion.
Upload(doc, pdfName, io) ==
  /\ alive /\ Idle
  /\ faiss \/ ~IndexWriteFails(io)
  /\ LET persists == pdfName /\ doc # <<>>
         gen == uploads + 1
         u == upload_pdf(doc, pdfName, io, faiss, index, metadata, idxFile, metaFile, gen)
     IN  /\ persists => uploads < MaxUploads
         /\ uploads' = IF persists THEN gen ELSE uploads
         /\ idxFile' = u.idxFile
         /\ metaFile' = u.metaFile
         /\ index' = u.index
         /\ metadata' = u.metadata
         /\ resp' = Resp("upload", u.status, "none", <<>>, "not_called")
  /\ UNCHANGED <<faiss, alive, client, threadVars, searchVars, funcVars>>

\* A direct call of rag_pipeline.reload_index().
Reload ==
  /\ alive /\ Idle
  /\ LET r == reload_index(index, metadata, idxFile, metaFile, faiss)
     IN  /\ index' = r.index
         /\ metadata' = r.metadata
         /\ resp' = Resp("reload", 0, IF r.raised THEN "raised" ELSE "returned", <<>>, "not_called")
  /\ UNCHANGED <<faiss, alive, client, diskVars, threadVars, searchVars, funcVars>>

\* The process starts again: main.py builds RAGPipeline() from the files on
\* disk. clientOk: InferenceClient could be built.
Restart(clientOk) ==
  /\ Idle
  /\ LET r == InitLoad(idxFile, metaFile, faiss)
     IN  /\ alive' = ~r.raised
         /\ index' = r.index
         /\ metadata' = r.metadata
         /\ client' = IF r.raised \/ ~clientOk THEN "none" ELSE "ok"
         /\ resp' = Resp("restart", 0, IF r.raised THEN "raised" ELSE "returned", <<>>, "not_called")
  /\ UNCHANGED <<faiss, diskVars, threadVars, searchVars, funcVars>>

\* POST /query, run to completion. An exception leaving answer_query is the
\* server's 500 response.
Query(q, gwOk) ==
  /\ alive /\ Idle
  /\ IF NothingIndexed(index, metadata)
     THEN resp' = Resp("query", 400, "none", <<>>, "not_called")
     ELSE \E a \in answer_query(q, client, index, metadata, faiss, gwOk) :
            resp' = Resp("query", IF a.raised THEN 500 ELSE 200, a.out, a.ctx, a.gw)
  /\ UNCHANGED <<faiss, pipeVars, diskVars, threadVars, searchVars, funcVars>>

\* A direct call of rag.answer_query(query), as in rag_pipeline.py's test run.
AnswerQuery(q, gwOk) ==
  /\ alive /\ Idle
  /\ \E a \in answer_query(q, client, index, metadata, faiss, gwOk) :
       resp' = Resp("answer", 0, a.out, a.ctx, a.gw)
  /\ UNCHANGED <<faiss, pipeVars, diskVars, threadVars, searchVars, funcVars>>

\* A direct call of rag.retrieve_context(query).
RetrieveContext(q) ==
  /\ alive /\ Idle
  /\ \E c \in retrieve_context(q, index, metadata, faiss) :
       resp' = Resp("retrieve", 0, IF c.raised THEN "raised" ELSE "returned", c.ctx, "not_called")
  /\ UNCHANGED <<faiss, pipeVars, diskVars, threadVars, searchVars, funcVars>>

\* The environment removes an artifact from the working directory.
RemoveIndexFile ==
  /\ Idle
  /\ idxFile.st # "absent"
  /\ idxFile' = AbsentIdx
  /\ UNCHANGED <<faiss, pipeVars, metaFile, uploads, resp, threadVars, searchVars, funcVars>>

RemoveMetadataFile ==
  /\ Idle
  /\ metaFile.st # "absent"
  /\ metaFile' = AbsentMeta
  /\ UNCHANGED <<faiss, pipeVars, idxFile, uploads, resp, threadVars, searchVars, funcVars>>

Next ==
  \/ \E doc \in Docs, pdfName \in BOOLEAN, io \in SaveOutcomes : Upload(doc, pdfName, io)
  \/ Reload
  \/ \E clientOk \in BOOLEAN : Restart(clientOk)
  \/ \E q \in Texts, gwOk \in BOOLEAN : Query(q, gwOk)
  \/ \E q \in Texts, gwOk \in BOOLEAN : AnswerQuery(q, gwOk)
  \/ \E q \in Texts : RetrieveContext(q)
  \/ RemoveIndexFile
  \/ RemoveMetadataFile

Spec == Init /\ [][Next]_vars


\* ---------------------------------------------- calls running concurrently
\* An upload and a retrieve_context, each in a thread of its own, one step per
\* statement that reads or writes shared state. Every write to disk completes.

\* upload_pdf up to the persistence step.
UStart(doc) ==
  /\ alive /\ upc = "idle"
  /\ doc # <<>>
  /\ uploads < MaxUploads
  /\ uploads' = uploads + 1
  /\ uDoc' = doc
  /\ upc' = IF faiss THEN "save_index" ELSE "save_metadata"
  /\ UNCHANGED <<faiss, pipeVars, idxFile, metaFile, resp, qpc, qQuery, qIndex, qMeta, searchVars, funcVars>>

\* save_index(build_faiss_index(vectors))
USaveIndex ==
  /\ upc = "save_index"
  /\ idxFile' = save_index(build_faiss_index(uDoc), uploads)
  /\ upc' = "save_metadata"
  /\ UNCHANGED <<faiss, pipeVars, metaFile, uploads, resp, uDoc, qpc, qQuery, qIndex, qMeta, searchVars, funcVars>>

\* save_metadata(metadata)
USaveMetadata ==
  /\ upc = "save_metadata"
  /\ metaFile' = save_metadata(UploadMetadata(uDoc), uploads)
  /\ upc' = "reload_metadata"
  /\ UNCHANGED <<faiss, pipeVars, idxFile, uploads, resp, uDoc, qpc, qQuery, qIndex, qMeta, searchVars, funcVars>>

\* reload_index: self.metadata = load_metadata(self.meta_path)
UReloadMetadata ==
  /\ upc = "reload_metadata"
  /\ LET m == load_metadata(metaFile)
     IN  IF m.exc # "none"
         THEN /\ upc' = "idle"
              /\ resp' = Resp("upload", 200, "none", <<>>, "not_called")
              /\ UNCHANGED metadata
         ELSE /\ metadata' = m.val
              /\ upc' = "reload_index"
              /\ UNCHANGED resp
  /\ UNCHANGED <<faiss, alive, client, index, diskVars, uDoc, qpc, qQuery, qIndex, qMeta, searchVars, funcVars>>

\* reload_index: self.index = load_index(self.index_path), or None without
\* FAISS; then upload_pdf returns.
UReloadIndex ==
  /\ upc = "reload_index"
  /\ LET i == load_index(idxFile)
     IN  index' = IF ~faiss THEN NoIndex
                  ELSE IF i.exc # "none" THEN index
                  ELSE i.val
  /\ upc' = "idle"
  /\ resp' = Resp("upload", 200, "none", <<>>, "not_called")
  /\ UNCHANGED <<faiss, alive, client, metadata, diskVars, uDoc, qpc, qQuery, qIndex, qMeta, searchVars, funcVars>>

\* retrieve_context: if not self.metadata: return []; else encode the query.
QStart(q) ==
  /\ alive /\ qpc = "idle"
  /\ qQuery' = q
  /\ IF metadata.recs = <<>>
     THEN /\ resp' = Resp("retrieve", 0, "returned", <<>>, "not_called")
          /\ UNCHANGED qpc
     ELSE /\ qpc' = "read_index"
          /\ UNCHANGED resp
  /\ UNCHANGED <<faiss, pipeVars, diskVars, upc, uDoc, qIndex, qMeta, searchVars, funcVars>>

\* The arguments of search_index(query_embedding, self.index, self.metadata,
\* top_k) are evaluated left to right: self.index ...
QReadIndex ==
  /\ qpc = "read_index"
  /\ qIndex' = index
  /\ qpc' = "read_metadata"
  /\ UNCHANGED <<faiss, pipeVars, diskVars, resp, upc, uDoc, qQuery, qMeta, searchVars, funcVars>>

\* ... then self.metadata.
QReadMetadata ==
  /\ qpc = "read_metadata"
  /\ qMeta' = metadata
  /\ qpc' = "search"
  /\ UNCHANGED <<faiss, pipeVars, diskVars, resp, upc, uDoc, qQuery, qIndex, searchVars, funcVars>>

\* The search on the values read, and the return of the texts.
QSearch ==
  /\ qpc = "search"
  /\ \E o \in search_index(Raw(qQuery), qIndex, qMeta.recs, DefaultTopK, faiss) :
       resp' = Resp("retrieve", 0, IF o.raised THEN "raised" ELSE "returned",
                    ContextTexts(o.res), "not_called")
  /\ qpc' = "idle"
  /\ UNCHANGED <<faiss, pipeVars, diskVars, upc, uDoc, qQuery, qIndex, qMeta, searchVars, funcVars>>

NextConc ==
  \/ \E doc \in Docs : UStart(doc)
  \/ USaveIndex
  \/ USaveMetadata
  \/ UReloadMetadata
  \/ UReloadIndex
  \/ \E q \in Texts : QStart(q)
  \/ QReadIndex
  \/ QReadMetadata
  \/ QSearch

SpecConc == Init /\ [][NextConc]_vars

\* ------------------------------------------------- search_index on its own
\* A stored corpus: the chunks' texts in row order. Its metadata records carry
\* the embedding, as the in-memory search needs; its index holds the
\* normalized rows.
Corpora == UNION {[1..n -> Texts] : n \in 0..MaxRows}

StoredMetadata(corpus) ==
  [i \in 1..Len(corpus) |->
     [text |-> corpus[i], page |-> 1, chunk_id |-> i, embedding |-> Raw(corpus[i])]]

StoredIndex(corpus) == [kind |-> "faiss", gen |-> 0, rows |-> build_faiss_index(corpus)]

\* The arguments of one call: fa is _FAISS_AVAILABLE, withIndex whether an
\* index (rather than None) is passed.
SearchInputs ==
  {[called |-> TRUE, fa |-> fa, withIndex |-> wi, corpus |-> c, query |-> q, top_k |-> k]
     : fa \in BOOLEAN, wi \in BOOLEAN, c \in Corpora, q \in Texts, k \in 1..MaxK}

InitSearch ==
  /\ sIn \in {x \in SearchInputs : x.withIndex => x.fa}
  /\ sOut = NoSearch
  /\ faiss = sIn.fa
  /\ alive = TRUE
  /\ client = "ok"
  /\ index = NoIndex
  /\ metadata = EmptyMetadata
  /\ idxFile = AbsentIdx
  /\ metaFile = AbsentMeta
  /\ uploads = 0
  /\ resp = Resp("start", 0, "none", <<>>, "not_called")
  /\ upc = "idle"
  /\ uDoc = <<>>
  /\ qpc = "idle"
  /\ qQuery = "A"
  /\ qIndex = NoIndex
  /\ qMeta = EmptyMetadata
  /\ FuncsAtRest

\* search_index(query_vec, index, metadata_list, top_k)
SearchIndex ==
  /\ sOut = NoSearch
  /\ \E o \in search_index(Raw(sIn.query),
                           IF sIn.withIndex THEN StoredIndex(sIn.corpus) ELSE NoIndex,
                           StoredMetadata(sIn.corpus), sIn.top_k, sIn.fa) :
       sOut' = [called |-> TRUE, raised |-> o.raised, res |-> o.res]
  /\ UNCHANGED <<faiss, pipeVars, diskVars, resp, threadVars, sIn, funcVars>>

NextSearch == SearchIndex

SpecSearch == InitSearch /\ [][NextSearch]_vars

\* ------------------------------------- add_embeddings_to_index on its own
\* Largest number of add_embeddings_to_index calls in one behaviour.
MaxAdds == 2
\* Largest number of vectors handed to one call.
MaxBatch == 2

\* The pipeline and the files as they are when nothing was ever uploaded.
SystemAtRest ==
  /\ alive = TRUE
  /\ client = "ok"
  /\ index = NoIndex
  /\ metadata = EmptyMetadata
  /\ idxFile = AbsentIdx
  /\ metaFile = AbsentMeta
  /\ uploads = 0
  /\ resp = Resp("start", 0, "none", <<>>, "not_called")
  /\ upc = "idle"
  /\ uDoc = <<>>
  /\ qpc = "idle"
  /\ qQuery = "A"
  /\ qIndex = NoIndex
  /\ qMeta = EmptyMetadata

\* The chunks of one call: their texts, in order.
Batches == UNION {[1..m -> Texts] : m \in 1..MaxBatch}

BatchEmbeddings(batch) == [i \in 1..Len(batch) |-> Raw(batch[i])]

BatchMetadata(batch) ==
  [i \in 1..Len(batch) |-> [text |-> batch[i], page |-> 1, chunk_id |-> i]]

NormalizeRows(embeddings) ==
  [i \in 1..Len(embeddings) |-> NormalizeL2(embeddings[i])]

\* add_embeddings_to_index(embeddings_list, metadata_list, index): with FAISS
\* the vectors become a new index or are added to the one passed; the list
\* returned is the metadata_list passed.
add_embeddings_to_index(embeddings, metadata_list, idx, fa) ==
  IF fa
  THEN IF idx.kind = "none"
       THEN [index |-> [kind |-> "faiss", gen |-> 0, rows |-> NormalizeRows(embeddings)],
             metadata |-> metadata_list]
       ELSE [index |-> [idx EXCEPT !.rows = @ \o NormalizeRows(embeddings)],
             metadata |-> metadata_list]
  ELSE [index |-> NoIndex, metadata |-> metadata_list]

InitAdd ==
  /\ faiss \in BOOLEAN
  /\ SystemAtRest
  /\ sIn = NoSearch
  /\ sOut = NoSearch
  /\ FuncsAtRest

\* One call, given the vectors of a batch, their metadata records and the
\* index the previous call returned.
AddEmbeddings(batch) ==
  /\ aCalls < MaxAdds
  /\ LET r == add_embeddings_to_index(BatchEmbeddings(batch), BatchMetadata(batch),
                                      aIndex, faiss)
     IN  /\ aIndex' = r.index
         /\ aMeta' = r.metadata
  /\ aCalls' = aCalls + 1
  /\ UNCHANGED <<faiss, pipeVars, diskVars, resp, threadVars, searchVars, chunkVars>>

NextAdd == \E batch \in Batches : AddEmbeddings(batch)

SpecAdd == InitAdd /\ [][NextAdd]_vars

\* ------------------------------------------ the two branches side by side
\* One dataset, query and top_k; fa and withIndex are those of the FAISS call.
InitEquiv ==
  /\ sIn \in {x \in SearchInputs : x.fa /\ x.withIndex}
  /\ sOut = NoSearch
  /\ faiss = TRUE
  /\ SystemAtRest
  /\ FuncsAtRest

\* search_index on the dataset with FAISS and its index, and search_index on
\* the same dataset without FAISS (index None).
CompareBackends ==
  /\ sOut = NoSearch
  /\ \E f \in search_index(Raw(sIn.query), StoredIndex(sIn.corpus),
                           StoredMetadata(sIn.corpus), sIn.top_k, TRUE),
        m \in search_index(Raw(sIn.query), NoIndex,
                           StoredMetadata(sIn.corpus), sIn.top_k, FALSE) :
       sOut' = [called |-> TRUE, exact |-> f, memory |-> m]
  /\ UNCHANGED <<faiss, pipeVars, diskVars, resp, threadVars, sIn, funcVars>>

NextEquiv == CompareBackends

SpecEquiv == InitEquiv /\ [][NextEquiv]_vars

\* ----------------------------------------------------- chunk_text on its own
\* Largest number of words of a text (the scenario's text apart).
MaxWords == 6
\* Largest max_words.
MaxChunkWords == 4
\* chunk_text's defaults.
DefaultMaxWords == 200
DefaultOverlap == 50

\* The arguments of one call: a text of n words (text.split(); a word is named
\* by its offset, from 0), max_words and overlap with 0 <= overlap < max_words.
\* The 450-word page with the default parameters is among them.
ChunkInputs ==
  {[called |-> TRUE, n |-> n, max_words |-> mw, overlap |-> ov]
     : n \in 1..MaxWords, mw \in 1..MaxChunkWords, ov \in 0..(MaxChunkWords - 1)}
  \cup {[called |-> TRUE, n |-> 450, max_words |-> DefaultMaxWords,
         overlap |-> DefaultOverlap]}

\* words[start:end]: the words at offsets start .. min(end, n) - 1.
Slice(n, start, end) == [i \in 1..(Min(end, n) - start) |-> start + i - 1]

InitChunk ==
  /\ cIn \in {x \in ChunkInputs : x.overlap < x.max_words}
  /\ cStart = 0
  /\ cChunks = <<>>
  /\ aIndex = NoIndex
  /\ aMeta = <<>>
  /\ aCalls = 0
  /\ faiss = TRUE
  /\ SystemAtRest
  /\ sIn = NoSearch
  /\ sOut = NoSearch

\* One turn of chunk_text's loop: while start < len(words).
ChunkStep ==
  /\ cIn.called
  /\ cStart < cIn.n
  /\ cChunks' = Append(cChunks, Slice(cIn.n, cStart, cStart + cIn.max_words))
  /\ cStart' = cStart + (cIn.max_words - cIn.overlap)
  /\ UNCHANGED <<faiss, pipeVars, diskVars, resp, threadVars, searchVars, addVars, cIn>>

\* The loop has ended: chunk_text returns chunks.
ChunkDone == cIn.called /\ cStart >= cIn.n

NextChunk == ChunkStep

SpecChunk == InitChunk /\ [][NextChunk]_vars

\* ------------------------------------------------------------------ claims
\* Row i of the index is the vector of the chunk recorded in metadata[i].
RowsAligned(idx, meta) ==
  /\ Len(idx.rows) = Len(meta.recs)
  /\ \A i \in 1..Len(meta.recs) :
       i <= Len(idx.rows) => idx.rows[i] = NormalizeL2(Raw(meta.recs[i].text))

\* The active pair is aligned. Without FAISS there is no index to align; with
\* it, no index means no metadata.
PairAligned ==
  IF index.kind = "none"
  THEN faiss => metadata.recs = <<>>
  ELSE RowsAligned(index, metadata)

\* C1: after any sequence of uploads, constructions and reloads (failing load
\* steps included) the pipeline's index has as many rows as the metadata has
\* records, and row i is the vector of the chunk of metadata[i].
C1_ActivePairAligned == alive => PairAligned

ReloadStep == resp'.op = "reload"

LoadStep == resp'.op \in {"reload", "restart"}

ArtifactAbsent == metaFile.st = "absent" \/ idxFile.st = "absent"

\* C2: with FAISS available, a reload (or a construction) that finds either
\* artifact absent leaves the explicit empty corpus: no index and empty
\* metadata, whatever pair was active before.
C2_AbsentArtifactGivesEmptyCorpus ==
  [][(faiss /\ LoadStep /\ ArtifactAbsent)
       => (alive' /\ index' = NoIndex /\ metadata'.recs = <<>>)]_vars

ArtifactCorrupt ==
  \/ metaFile.st = "corrupt"
  \/ faiss /\ idxFile.st = "corrupt"
  \/ /\ faiss /\ metaFile.st = "ok" /\ idxFile.st = "ok"
     /\ Len(idxFile.rows) # Len(metaFile.recs)

\* C3: a reload_index call that finds an artifact it cannot deserialize, or an
\* index artifact whose row count differs from the metadata artifact's record
\* count, raises to its caller and leaves self.index and self.metadata as they
\* were.
C3_CorruptArtifactRaisesAndKeepsPair ==
  [][(ReloadStep /\ ~ArtifactAbsent /\ ArtifactCorrupt)
       => (resp'.out = "raised" /\ index' = index /\ metadata' = metadata)]_vars

EmptyCorpus == metadata.recs = <<>>

\* C4 as stated: on an empty corpus retrieve_context returns the empty list and
\* answer_query returns the fixed "no relevant information" message without
\* calling the gateway, whatever the state of the client.
C4_EmptyCorpusFixedMessage ==
  /\ (resp.op = "retrieve" /\ EmptyCorpus)
       => (resp.out = "returned" /\ resp.ctx = <<>>)
  /\ (resp.op = "answer" /\ EmptyCorpus)
       => (resp.out = "no_info" /\ resp.gw = "not_called")

\* C4 as amended: on an empty corpus retrieve_context returns the empty list;
\* answer_query never calls the gateway, and returns the fixed "no relevant
\* information" message when the client is initialized and the "client not
\* initialized" error string when it is not.
C4_EmptyCorpusNoGateway ==
  /\ (resp.op = "retrieve" /\ EmptyCorpus)
       => (resp.out = "returned" /\ resp.ctx = <<>>)
  /\ (resp.op = "answer" /\ EmptyCorpus)
       => /\ resp.gw = "not_called"
          /\ resp.ctx = <<>>
          /\ resp.out = (IF client = "ok" THEN "no_info" ELSE "client_error")

C4_Witness ==
  /\ resp.op = "answer" /\ EmptyCorpus /\ client = "ok" /\ resp.out = "no_info"

\* The pipeline before any document was ingested: no index, empty metadata.
Uninitialized == index = NoIndex /\ metadata = EmptyMetadata

C7_ArtifactsFromSameUpload ==
  /\ (faiss /\ idxFile.st = "ok" /\ metaFile.st = "ok") => idxFile.gen = metaFile.gen
  /\ (alive /\ index.kind = "faiss" /\ metadata.recs # <<>>) => index.gen = metadata.gen

\* C8: without FAISS, after a successful upload, retrieve_context on the
\* reloaded pipeline returns the ranked chunks of the document and does not
\* raise.
C8_FallbackServesUpload ==
  (~faiss /\ resp.op = "retrieve" /\ ~EmptyCorpus)
    => (resp.out = "returned" /\ resp.ctx # <<>>)

\* C9: when client.chat_completion fails for a non-empty context,
\* answer_query returns the error-describing string, nothing is raised, and
\* the call leaves self.index and self.metadata as they were.
C9_GatewayFailureIsAnAnswer ==
  [][(resp'.op \in {"answer", "query"} /\ resp'.gw = "failed")
       => /\ resp'.out = "gen_error"
          /\ resp'.status # 500
          /\ resp'.ctx # <<>>
          /\ index' = index /\ metadata' = metadata]_vars

C9_Witness ==
  /\ resp.op = "query" /\ resp.gw = "failed" /\ resp.out = "gen_error"
  /\ resp.status = 200 /\ ~EmptyCorpus


\* C6: the search of a retrieve_context that runs while an upload reloads the
\* pipeline uses an index and a metadata list of the same loaded pair.
C6_SearchUsesOnePair ==
  (faiss /\ qpc = "search" /\ qIndex.kind = "faiss") => qIndex.gen = qMeta.gen

Searched == sOut.called /\ Len(sIn.corpus) >= 1

\* The result list is in descending order of score.
Descending(res) ==
  \A i, j \in 1..Len(res) : i < j => ~ScoreLess(res[i].score, res[j].score)

\* Equal scores are in ascending order of row.
TiesByRow(res) ==
  \A i, j \in 1..Len(res) :
    (i < j /\ ScoreEq(res[i].score, res[j].score)) => res[i].row < res[j].row

\* Each result is the metadata record of its row with that row's cosine
\* similarity to the query, no row twice, and no row left out scores higher
\* than a row returned.
RankedRows(res) ==
  LET md == StoredMetadata(sIn.corpus)
      cos(r) == InnerProduct(NormalizeL2(Raw(sIn.corpus[r])), NormalizeL2(Raw(sIn.query)))
  IN  /\ \A i \in 1..Len(res) :
           /\ res[i].row \in 1..Len(md)
           /\ res[i].meta = md[res[i].row]
           /\ ScoreEq(res[i].score, cos(res[i].row))
      /\ \A i, j \in 1..Len(res) : res[i].row = res[j].row => i = j
      /\ \A r \in 1..Len(md) :
           (\A i \in 1..Len(res) : res[i].row # r)
             => \A i \in 1..Len(res) : ~ScoreLess(res[i].score, cos(r))

ScenarioHolds ==
  (sIn.corpus = <<"A", "B", "C">> /\ sIn.query = "A" /\ sIn.top_k = 2)
    => ContextTexts(sOut.res) = <<"A", "C">>

\* C10: for a stored corpus of n >= 1 rows, a query and k >= 1, search_index
\* returns min(k, n) results in descending order of score, equal scores in
\* ascending order of row, each the metadata record of the ranked row; rows
\* [1,0], [0,1], [0.7,0.7] queried with [1,0] and k = 2 give A then C.
C10_RankedTopK ==
  Searched =>
    /\ ~sOut.raised
    /\ Len(sOut.res) = Min(sIn.top_k, Len(sIn.corpus))
    /\ Descending(sOut.res)
    /\ TiesByRow(sOut.res)
    /\ RankedRows(sOut.res)
    /\ ScenarioHolds

\* What search_index does guarantee: C10 without the order among equal scores.
RankedTopKUpToTies ==
  Searched =>
    /\ ~sOut.raised
    /\ Len(sOut.res) = Min(sIn.top_k, Len(sIn.corpus))
    /\ Descending(sOut.res)
    /\ RankedRows(sOut.res)
    /\ ScenarioHolds


\* C11: search_index on an empty corpus (no stored rows, empty metadata list)
\* returns the empty result list and does not raise, in the FAISS branch and
\* in the in-memory branch.
C11_EmptyCorpusSearchReturnsEmpty ==
  (sOut.called /\ sIn.corpus = <<>>) => (~sOut.raised /\ sOut.res = <<>>)


\* C12: after every call of a sequence of add_embeddings_to_index calls, each
\* given m vectors, their m metadata records and the index the previous call
\* returned, the returned index has as many rows as the returned metadata
\* list has records.
C12_AddKeepsCountsEqual ==
  (faiss /\ aCalls >= 1) => Len(aIndex.rows) = Len(aMeta)


ResultRows(res) == [i \in 1..Len(res) |-> res[i].row]

Compared == sOut.called /\ Len(sIn.corpus) >= 1

\* C13: for the same dataset of n >= 1 rows, query and k, the FAISS branch
\* and the in-memory branch of search_index return the same ranked sequence
\* of rows, also when several rows have equal scores.
C13_BackendsRankAlike ==
  Compared =>
    /\ ~sOut.exact.raised /\ ~sOut.memory.raised
    /\ ResultRows(sOut.exact.res) = ResultRows(sOut.memory.res)

\* What the two branches do agree on: the number of results and the score at
\* every rank.
BackendsScoreAlike ==
  Compared =>
    /\ ~sOut.exact.raised /\ ~sOut.memory.raised
    /\ Len(sOut.exact.res) = Len(sOut.memory.res)
    /\ \A i \in 1..Len(sOut.exact.res) :
         i <= Len(sOut.memory.res)
           => ScoreEq(sOut.exact.res[i].score, sOut.memory.res[i].score)


Range(seq) == {seq[i] : i \in 1..Len(seq)}

SharedWords(c1, c2) == Cardinality(Range(c1) \cap Range(c2))

\* Chunk j (from 0) starts at word offset j * (max_words - overlap) and has at
\* most max_words words.
ChunkOffsetsAndSizes ==
  \A j \in 1..Len(cChunks) :
    /\ cChunks[j][1] = (j - 1) * (cIn.max_words - cIn.overlap)
    /\ Len(cChunks[j]) <= cIn.max_words

ChunkScenario ==
  (cIn.n = 450 /\ cIn.max_words = 200 /\ cIn.overlap = 50)
    => /\ Len(cChunks) = 3
       /\ cChunks[1][1] = 0 /\ cChunks[2][1] = 150 /\ cChunks[3][1] = 300

\* C14: for a text of N >= 1 words and 0 <= overlap < max_words, chunk j of
\* chunk_text's result starts at word offset j * (max_words - overlap), every
\* chunk has at most max_words words, and every two consecutive chunks share
\* exactly overlap words; 450 words with max_words = 200 and overlap = 50 give
\* 3 chunks starting at offsets 0, 150, 300.
C14_ChunksOverlapExactly ==
  ChunkDone =>
    /\ ChunkOffsetsAndSizes
    /\ \A j \in 1..(Len(cChunks) - 1) :
         SharedWords(cChunks[j], cChunks[j + 1]) = cIn.overlap
    /\ ChunkScenario

\* What chunk_text does guarantee: offsets, sizes and the scenario; two
\* consecutive chunks share overlap words when the earlier one is full, and
\* the whole later chunk when the text ended inside the earlier one.
ChunksOverlapUnlessCut ==
  ChunkDone =>
    /\ ChunkOffsetsAndSizes
    /\ \A j \in 1..(Len(cChunks) - 1) :
         SharedWords(cChunks[j], cChunks[j + 1]) =
           (IF Len(cChunks[j]) = cIn.max_words THEN cIn.overlap
                                               ELSE Len(cChunks[j + 1]))
    /\ ChunkScenario

====
